---- MODULE Spec2Model ----
(***************************************************************************)
(* A model of the dense matrix library (matrix.hpp) and of the layered     *)
(* network built on it (neural-network.hpp).                               *)
(*                                                                         *)
(* Reals: a C++ double is modelled as a fixed-point number, an integer     *)
(* counting units of 1/SCALE.  Sums and differences are exact, products    *)
(* and quotients round (towards minus infinity), and the sigmoid is the    *)
(* true sigmoid rounded to the nearest unit.                               *)
(*                                                                         *)
(* A matrix is a record [rows, cols, data], data[i][j] being the cell the  *)
(* code calls data[i-1][j-1].  Vectors of the code (weights, biases,       *)
(* activations) are sequences, so that weights[i] of the code is           *)
(* weights[i+1] here; loop indices keep the code's 0-based values.         *)
(***************************************************************************)
EXTENDS Integers, Sequences, FiniteSets, TLC

VARIABLES
    weights,        \* NeuralNetwork::weights
    biases,         \* NeuralNetwork::biases
    layers,         \* NeuralNetwork::layers
    learning_rate,  \* NeuralNetwork::learning_rate
    rng,            \* state of the ambient random source behind rand()
    fwd,            \* per caller: the frame of its forward call
    tr,             \* the frame of the train call
    pre,            \* the network when the train call in flight (or the last one) began
    writes,         \* the writes that call has made to weights and biases, in order
    trained,        \* number of train calls begun
    opA,            \* matrix harness: left operand
    opB,            \* matrix harness: right operand
    opOut           \* matrix harness: what the last operation did

vars == <<weights, biases, layers, learning_rate, rng, fwd, tr, pre,
          writes, trained, opA, opB, opOut>>

netVars == <<weights, biases, layers, learning_rate>>
ghostVars == <<pre, writes, trained>>
opVars == <<opA, opB, opOut>>

----------------------------------------------------------------------------
(* Bounds *)

\* matrices of the harness have 0..MaxDim rows and columns
MaxDim == 2
\* rand() returns 0..RandMax
RandMax == 4
\* train calls per behaviour
MaxTrains == 1
\* concurrent callers of forward
NCallers == 2

\* units per 1.0 of the fixed-point reals
SCALE == 4

----------------------------------------------------------------------------
(* Reals *)

Num(n) == n * SCALE
Mul(x, y) == (x * y) \div SCALE
Div(x, y) == (x * SCALE) \div y

\* 1 / (1 + exp(-x)), rounded to the nearest 1/4
SigmoidValue(x) ==
    IF x >= 8 THEN 4
    ELSE IF x >= 3 THEN 3
    ELSE IF x >= -2 THEN 2
    ELSE IF x >= -7 THEN 1
    ELSE 0

----------------------------------------------------------------------------
(* Matrix *)

NoError == "none"
InvalidArgument == "invalid_argument"
OutOfRange == "out_of_range"

\* Matrix(r, c, initVal)
Matrix(r, c, initVal) ==
    [rows |-> r, cols |-> c,
     data |-> [i \in 1..r |-> [j \in 1..c |-> initVal]]]

NoMatrix == Matrix(0, 0, 0)

\* what a call gives: the value it returns, or the exception it throws
Returns(m) == [err |-> NoError, val |-> m]
Throws(e) == [err |-> e, val |-> NoMatrix]

\* at(i, j), i and j counted from 1
At(m, i, j) == m.data[i][j]

SameShape(a, b) == a.rows = b.rows /\ a.cols = b.cols
IsShape(m, r, c) == m.rows = r /\ m.cols = c

\* operator+ with the dimension check left out and the right operand's
\* columns repeated, as a bias column added to every column would be
MatAddBroadcast(lhs, rhs) ==
    IF lhs.rows # rhs.rows \/ rhs.cols = 0
    THEN Throws(InvalidArgument)
    ELSE Returns([rows |-> lhs.rows, cols |-> lhs.cols,
                  data |-> [i \in 1..lhs.rows |-> [j \in 1..lhs.cols |->
                              At(lhs, i, j)
                              + At(rhs, i, ((j - 1) % rhs.cols) + 1)]]])

\* operator+
MatAdd(lhs, rhs) ==
    IF lhs.rows # rhs.rows \/ lhs.cols # rhs.cols
    THEN Throws(InvalidArgument)
    ELSE Returns([rows |-> lhs.rows, cols |-> lhs.cols,
                  data |-> [i \in 1..lhs.rows |-> [j \in 1..lhs.cols |->
                              At(lhs, i, j) + At(rhs, i, j)]]])

\* operator- with the dimension check mistaken: only the rows are compared
MatSubRowsOnly(lhs, rhs) ==
    IF lhs.rows # rhs.rows
    THEN Throws(InvalidArgument)
    ELSE IF lhs.rows > 0 /\ lhs.cols > rhs.cols
    THEN Throws(OutOfRange)
    ELSE Returns([rows |-> lhs.rows, cols |-> lhs.cols,
                  data |-> [i \in 1..lhs.rows |-> [j \in 1..lhs.cols |->
                              At(lhs, i, j) - At(rhs, i, j)]]])

\* operator-
MatSub(lhs, rhs) ==
    IF lhs.rows # rhs.rows \/ lhs.cols # rhs.cols
    THEN Throws(InvalidArgument)
    ELSE Returns([rows |-> lhs.rows, cols |-> lhs.cols,
                  data |-> [i \in 1..lhs.rows |-> [j \in 1..lhs.cols |->
                              At(lhs, i, j) - At(rhs, i, j)]]])

\* the k loop of operator*: result(i, j) after k terms
RECURSIVE DotUpTo(_, _, _, _, _)
DotUpTo(lhs, rhs, i, j, k) ==
    IF k = 0 THEN 0
    ELSE DotUpTo(lhs, rhs, i, j, k - 1) + Mul(At(lhs, i, k), At(rhs, k, j))

\* operator*(const Matrix&) with the dimension check mistaken: the rows of
\* the two operands are compared; rhs.at(k, j) then throws for k beyond rhs.rows
MatMulRowsCheck(lhs, rhs) ==
    IF lhs.rows # rhs.rows
    THEN Throws(InvalidArgument)
    ELSE IF lhs.rows > 0 /\ rhs.cols > 0 /\ lhs.cols > rhs.rows
    THEN Throws(OutOfRange)
    ELSE Returns([rows |-> lhs.rows, cols |-> rhs.cols,
                  data |-> [i \in 1..lhs.rows |-> [j \in 1..rhs.cols |->
                              DotUpTo(lhs, rhs, i, j, lhs.cols)]]])

\* operator*(const Matrix&)
MatMul(lhs, rhs) ==
    IF lhs.cols # rhs.rows
    THEN Throws(InvalidArgument)
    ELSE Returns([rows |-> lhs.rows, cols |-> rhs.cols,
                  data |-> [i \in 1..lhs.rows |-> [j \in 1..rhs.cols |->
                              DotUpTo(lhs, rhs, i, j, lhs.cols)]]])

\* operator*(double)
ScalarMul(m, scalar) ==
    [rows |-> m.rows, cols |-> m.cols,
     data |-> [i \in 1..m.rows |-> [j \in 1..m.cols |-> Mul(At(m, i, j), scalar)]]]

\* transpose()
Transpose(m) ==
    [rows |-> m.cols, cols |-> m.rows,
     data |-> [j \in 1..m.cols |-> [i \in 1..m.rows |-> At(m, i, j)]]]

\* sigmoid(): the receiver afterwards
Sigmoid(m) ==
    [m EXCEPT !.data = [i \in 1..m.rows |-> [j \in 1..m.cols |->
                           SigmoidValue(At(m, i, j))]]]

\* square(): the receiver afterwards
Square(m) ==
    [m EXCEPT !.data = [i \in 1..m.rows |-> [j \in 1..m.cols |->
                           Mul(At(m, i, j), At(m, i, j))]]]

----------------------------------------------------------------------------
(* The ambient random source and randomize *)

\* rand(): the source's next state, which is also the value returned
RandNext(s) == (s + 3) % (RandMax + 1)

\* the state of the source after n calls of rand()
RECURSIVE RandAfter(_, _)
RandAfter(s, n) == IF n = 0 THEN s ELSE RandNext(RandAfter(s, n - 1))

\* the cell randomize writes with the division off by one (RAND_MAX - 1)
RandomCellOffByOne(r, min, max) ==
    min + Mul(Div(Num(r), Num(RandMax - 1)), max - min)

\* the cell randomize writes when rand() returns r
RandomCell(r, min, max) == min + Mul(Div(Num(r), Num(RandMax)), max - min)

\* randomize(min, max) with the source in state s: cells are written row by
\* row, one rand() each; gives the receiver and the source afterwards
Randomize(m, min, max, s) ==
    [val |-> [m EXCEPT !.data = [i \in 1..m.rows |-> [j \in 1..m.cols |->
                 RandomCell(RandAfter(s, (i - 1) * m.cols + j), min, max)]]],
     rng |-> RandAfter(s, m.rows * m.cols)]

----------------------------------------------------------------------------
(* NeuralNetwork: construction *)

\* the weight matrix allocated current x next instead of next x current
NewWeightSwapped(layer_sizes, i) == Matrix(layer_sizes[i + 1], layer_sizes[i + 2], 0)

\* Matrix w(layers[i + 1], layers[i])
NewWeight(layer_sizes, i) == Matrix(layer_sizes[i + 2], layer_sizes[i + 1], 0)

\* Matrix b(layers[i + 1], 1)
NewBias(layer_sizes, i) == Matrix(layer_sizes[i + 2], 1, 0)

\* the constructor's loop after n iterations, the random source starting in s
RECURSIVE ConstructUpTo(_, _, _)
ConstructUpTo(layer_sizes, s, n) ==
    IF n = 0 THEN [weights |-> <<>>, biases |-> <<>>, rng |-> s]
    ELSE LET before == ConstructUpTo(layer_sizes, s, n - 1)
             \* i of the code is n - 1
             w == Randomize(NewWeight(layer_sizes, n - 1), Num(-1), Num(1),
                            before.rng)
             b == Randomize(NewBias(layer_sizes, n - 1), Num(-1), Num(1), w.rng)
         IN  [weights |-> Append(before.weights, w.val),
              biases |-> Append(before.biases, b.val),
              rng |-> b.rng]

\* NeuralNetwork(layer_sizes, lr), the random source starting in s
NewNetwork(layer_sizes, lr, s) ==
    LET built == ConstructUpTo(layer_sizes, s, Len(layer_sizes) - 1)
    IN  [weights |-> built.weights, biases |-> built.biases,
         layers |-> layer_sizes, learning_rate |-> lr, rng |-> built.rng]

Network == [weights |-> weights, biases |-> biases, layers |-> layers,
            learning_rate |-> learning_rate]

----------------------------------------------------------------------------
(* NeuralNetwork::forward *)

IdleFrame ==
    [pc |-> "idle", input |-> NoMatrix, activation |-> NoMatrix, i |-> 0,
     err |-> NoError, ret |-> NoMatrix]

\* entry: Matrix activation = input
FwdEnter(input) ==
    [pc |-> "loop", input |-> input, activation |-> input, i |-> 0,
     err |-> NoError, ret |-> NoMatrix]

\* forward with activation a reference to the caller's input instead of a copy
FwdStepFrameAliased(ws, bs, fr) ==
    IF fr.i < Len(ws)
    THEN LET prod == MatMul(ws[fr.i + 1], fr.activation)
             z == IF prod.err # NoError THEN prod
                  ELSE MatAdd(prod.val, bs[fr.i + 1])
             a == IF fr.i < Len(ws) - 1 THEN Sigmoid(z.val) ELSE z.val
         IN  IF z.err # NoError
             THEN [fr EXCEPT !.pc = "done", !.err = z.err]
             ELSE [fr EXCEPT !.activation = a, !.input = a, !.i = fr.i + 1]
    ELSE [fr EXCEPT !.pc = "done", !.ret = fr.activation]

\* one iteration of forward's loop, or its return when the loop is over
FwdStepFrame(ws, bs, fr) ==
    IF fr.i < Len(ws)
    THEN LET prod == MatMul(ws[fr.i + 1], fr.activation)
             z == IF prod.err # NoError THEN prod
                  ELSE MatAdd(prod.val, bs[fr.i + 1])
         IN  IF z.err # NoError
             THEN [fr EXCEPT !.pc = "done", !.err = z.err]
             ELSE [fr EXCEPT !.activation = IF fr.i < Len(ws) - 1
                                            THEN Sigmoid(z.val) ELSE z.val,
                             !.i = fr.i + 1]
    ELSE [fr EXCEPT !.pc = "done", !.ret = fr.activation]

\* forward with the sum accumulated in place in biases[i]
FwdStepNetAccumulate(ws, bs, fr) ==
    IF fr.i < Len(ws)
    THEN LET prod == MatMul(ws[fr.i + 1], fr.activation)
             z == IF prod.err # NoError THEN prod
                  ELSE MatAdd(prod.val, bs[fr.i + 1])
         IN  [weights |-> ws,
              biases |-> IF z.err # NoError THEN bs
                         ELSE [bs EXCEPT ![fr.i + 1] = z.val]]
    ELSE [weights |-> ws, biases |-> bs]

\* what an iteration of forward's loop leaves in the network: it writes nothing
FwdStepNet(ws, bs, fr) == [weights |-> ws, biases |-> bs]

\* forward(input) run alone on weights ws and biases bs: the frame it ends in
RECURSIVE FwdRun(_, _, _)
FwdRun(ws, bs, fr) ==
    IF fr.pc = "done" THEN fr ELSE FwdRun(ws, bs, FwdStepFrame(ws, bs, fr))

Forward(ws, bs, input) == FwdRun(ws, bs, FwdEnter(input))

----------------------------------------------------------------------------
(* NeuralNetwork::train *)

IdleTrain ==
    [pc |-> "idle", input |-> NoMatrix, target |-> NoMatrix,
     activation |-> NoMatrix, activations |-> <<>>, z_values |-> <<>>,
     error |-> NoMatrix, i |-> 0, err |-> NoError,
     eIn |-> NoMatrix, eRaw |-> NoMatrix]

\* entry: activation = input; activations.push_back(activation)
TrainEnter(input, target) ==
    [IdleTrain EXCEPT !.pc = "fwd", !.input = input, !.target = target,
                      !.activation = input, !.activations = <<input>>]

Thrown(fr, e) == [fr EXCEPT !.pc = "done", !.err = e]

\* the forward propagation loop of train with the sigmoid applied to the
\* output layer too
TrainFwdStepAllSigmoid(ws, bs, fr) ==
    LET prod == MatMul(ws[fr.i + 1], fr.activation)
        z == IF prod.err # NoError THEN prod ELSE MatAdd(prod.val, bs[fr.i + 1])
        a == Sigmoid(z.val)
    IN  IF z.err # NoError THEN Thrown(fr, z.err)
        ELSE [fr EXCEPT !.z_values = Append(@, z.val),
                        !.activation = a,
                        !.activations = Append(@, a),
                        !.i = fr.i + 1]

\* one iteration of the forward propagation loop of train
TrainFwdStep(ws, bs, fr) ==
    LET prod == MatMul(ws[fr.i + 1], fr.activation)
        z == IF prod.err # NoError THEN prod ELSE MatAdd(prod.val, bs[fr.i + 1])
        a == IF fr.i < Len(ws) - 1 THEN Sigmoid(z.val) ELSE z.val
    IN  IF z.err # NoError THEN Thrown(fr, z.err)
        ELSE [fr EXCEPT !.z_values = Append(@, z.val),
                        !.activation = a,
                        !.activations = Append(@, a),
                        !.i = fr.i + 1]

\* Matrix error = activations.back() - target
TrainOutputError(fr) ==
    LET e == MatSub(fr.activations[Len(fr.activations)], fr.target)
    IN  IF e.err # NoError THEN Thrown(fr, e.err)
        ELSE [fr EXCEPT !.pc = "out_w", !.error = e.val]

\* the right-hand side  m - (error * a.transpose()) * learning_rate
WeightUpdate(m, error, a, lr) ==
    LET outer == MatMul(error, Transpose(a))
    IN  IF outer.err # NoError THEN outer
        ELSE MatSub(m, ScalarMul(outer.val, lr))

\* the right-hand side  m - error * learning_rate
BiasUpdate(m, error, lr) == MatSub(m, ScalarMul(error, lr))

\* size_t output_layer = weights.size() - 1
OutputLayer(ws) == Len(ws) - 1

\* the hidden loop begun one layer too low
FirstHiddenTooLow(output_layer) == output_layer - 2

\* int i = output_layer - 1
FirstHidden(output_layer) == output_layer - 1

\* error(j, k) *= derivative(j, k) for every cell of error
ScaleByDerivative(error, derivative) ==
    IF error.rows > derivative.rows \/ error.cols > derivative.cols
    THEN Throws(OutOfRange)
    ELSE Returns([error EXCEPT !.data =
                    [j \in 1..error.rows |-> [k \in 1..error.cols |->
                        Mul(At(error, j, k), At(derivative, j, k))]]])

\* the hidden loop's body up to the update: the error of layer fr.i
TrainBackpropagate(ws, fr) ==
    LET raw == MatMul(Transpose(ws[fr.i + 2]), fr.error)
        sigmoid_derivative == Square(fr.activations[fr.i + 2])
        ones == Matrix(sigmoid_derivative.rows, sigmoid_derivative.cols, Num(1))
        derivative == MatSub(ones, sigmoid_derivative)
        scaled == IF raw.err # NoError THEN raw
                  ELSE IF derivative.err # NoError THEN derivative
                  ELSE ScaleByDerivative(raw.val, derivative.val)
    IN  IF scaled.err # NoError THEN Thrown(fr, scaled.err)
        ELSE [fr EXCEPT !.pc = "hid_w", !.error = scaled.val,
                        !.eIn = fr.error, !.eRaw = raw.val]

----------------------------------------------------------------------------
(* Inputs *)

Callers == 1..NCallers

\* layer-size sequences a network is constructed from: no, one and two hidden
\* layers, square and not
LayerChoices ==
    {<<1, 1>>, <<2, 1>>, <<1, 2>>, <<1, 2, 1>>, <<2, 2, 1>>, <<2, 1, 2>>,
     <<2, 1, 2, 1>>}

\* learning rates: 0 and 0.5
LRChoices == {0, 2}

\* an r x c matrix whose cells alternate between 0 and 1, beginning with p
Pattern(r, c, p) ==
    [rows |-> r, cols |-> c,
     data |-> [i \in 1..r |-> [j \in 1..c |-> Num((i + j + p) % 2)]]]

\* inputs and targets handed to forward and train: well and ill shaped
ArgChoices == {Pattern(r, c, p) : r \in {1, 2}, c \in {1, 2}, p \in {0, 1}}

\* inputs of the concurrent forward calls
ConcurrentArgChoices ==
    {Pattern(1, 1, 0), Pattern(1, 1, 1), Pattern(2, 1, 0), Pattern(2, 1, 1),
     Pattern(1, 2, 0)}

\* an r x c matrix with cells -1, 0, 1 in turn, beginning with p - 1
Ramp(r, c, p) ==
    [rows |-> r, cols |-> c,
     data |-> [i \in 1..r |-> [j \in 1..c |-> Num(((i * c + j + p) % 3) - 1)]]]

\* operands of the matrix harness, empty matrices among them
MatrixChoices == {Ramp(r, c, p) : r \in 0..MaxDim, c \in 0..MaxDim, p \in {0, 1}}

\* (min, max) pairs handed to randomize, min < max
RangeChoices == {<<Num(-1), Num(1)>>, <<0, Num(1)>>, <<Num(1), Num(3)>>}

\* networks of the matrix harness
HarnessLayers == {<<1, 1>>, <<2, 1>>, <<1, 2, 1>>}

\* lhs and rhs are the operands as they were when the operation was called
IdleOp ==
    [op |-> "none", err |-> NoError, val |-> NoMatrix, min |-> 0, max |-> 0,
     lhs |-> NoMatrix, rhs |-> NoMatrix]

----------------------------------------------------------------------------
(* Initial states: the network after construction *)

Constructed(choices, rates) ==
    \E layer_sizes \in choices, lr \in rates, s \in 0..RandMax :
        LET nn == NewNetwork(layer_sizes, lr, s)
        IN  /\ weights = nn.weights
            /\ biases = nn.biases
            /\ layers = nn.layers
            /\ learning_rate = nn.learning_rate
            /\ rng = nn.rng
            /\ pre = [weights |-> nn.weights, biases |-> nn.biases,
                      layers |-> nn.layers, learning_rate |-> nn.learning_rate]

NoCalls ==
    /\ fwd = [c \in Callers |-> IdleFrame]
    /\ tr = IdleTrain
    /\ writes = <<>>
    /\ trained = 0

Init ==
    /\ Constructed(LayerChoices, LRChoices)
    /\ NoCalls
    /\ opA = NoMatrix
    /\ opB = NoMatrix
    /\ opOut = IdleOp

InitForward ==
    /\ Constructed(LayerChoices, {2})
    /\ NoCalls
    /\ opA = NoMatrix
    /\ opB = NoMatrix
    /\ opOut = IdleOp

InitMatrix ==
    /\ Constructed(HarnessLayers, {2})
    /\ NoCalls
    /\ opA \in MatrixChoices
    /\ opB \in MatrixChoices
    /\ opOut = IdleOp

----------------------------------------------------------------------------
(* Actions: forward *)

Returned(fr) == fr.pc \in {"idle", "done"}

\* no call is in flight
Quiet == Returned(tr) /\ \A c \in Callers : Returned(fwd[c])

\* a caller calls forward(input) while nothing else runs
CallForward(c, input) ==
    /\ Quiet
    /\ fwd' = [d \in Callers |-> IF d = c THEN FwdEnter(input) ELSE IdleFrame]
    /\ tr' = IdleTrain
    /\ UNCHANGED <<netVars, rng, ghostVars, opVars>>

\* a caller calls forward(input) while other forward calls may be running
CallForwardConcurrently(c, input) ==
    /\ Returned(fwd[c])
    /\ fwd' = [fwd EXCEPT ![c] = FwdEnter(input)]
    /\ UNCHANGED <<netVars, rng, tr, ghostVars, opVars>>

\* the forward call of caller c runs one iteration of its loop, or returns
StepForward(c) ==
    /\ fwd[c].pc = "loop"
    /\ fwd' = [fwd EXCEPT ![c] = FwdStepFrame(weights, biases, fwd[c])]
    /\ weights' = FwdStepNet(weights, biases, fwd[c]).weights
    /\ biases' = FwdStepNet(weights, biases, fwd[c]).biases
    /\ UNCHANGED <<layers, learning_rate, rng, tr, ghostVars, opVars>>

----------------------------------------------------------------------------
(* Actions: train *)

CallTrain(input, target) ==
    /\ Quiet
    /\ trained < MaxTrains
    /\ tr' = TrainEnter(input, target)
    /\ fwd' = [c \in Callers |-> IdleFrame]
    /\ pre' = Network
    /\ writes' = <<>>
    /\ trained' = trained + 1
    /\ UNCHANGED <<netVars, rng, opVars>>

TrainForward ==
    /\ tr.pc = "fwd"
    /\ tr.i < Len(weights)
    /\ tr' = TrainFwdStep(weights, biases, tr)
    /\ UNCHANGED <<netVars, rng, fwd, ghostVars, opVars>>

TrainError ==
    /\ tr.pc = "fwd"
    /\ tr.i >= Len(weights)
    /\ tr' = TrainOutputError(tr)
    /\ UNCHANGED <<netVars, rng, fwd, ghostVars, opVars>>

\* weights[layer] = weights[layer] - (error * activations[layer].transpose()) * learning_rate
WriteWeights(layer, next) ==
    LET u == WeightUpdate(weights[layer + 1], tr.error,
                          tr.activations[layer + 1], learning_rate)
    IN  IF u.err # NoError
        THEN tr' = Thrown(tr, u.err) /\ UNCHANGED <<weights, writes>>
        ELSE /\ weights' = [weights EXCEPT ![layer + 1] = u.val]
             /\ writes' = Append(writes, <<"weights", layer>>)
             /\ tr' = next

\* biases[layer] = biases[layer] - error * learning_rate
WriteBiases(layer, next) ==
    LET u == BiasUpdate(biases[layer + 1], tr.error, learning_rate)
    IN  IF u.err # NoError
        THEN tr' = Thrown(tr, u.err) /\ UNCHANGED <<biases, writes>>
        ELSE /\ biases' = [biases EXCEPT ![layer + 1] = u.val]
             /\ writes' = Append(writes, <<"biases", layer>>)
             /\ tr' = next

TrainOutputWeights ==
    /\ tr.pc = "out_w"
    /\ WriteWeights(OutputLayer(weights), [tr EXCEPT !.pc = "out_b"])
    /\ UNCHANGED <<biases, layers, learning_rate, rng, fwd, pre, trained, opVars>>

TrainOutputBiases ==
    /\ tr.pc = "out_b"
    /\ WriteBiases(OutputLayer(weights),
                   [tr EXCEPT !.pc = "hid", !.i = FirstHidden(OutputLayer(weights))])
    /\ UNCHANGED <<weights, layers, learning_rate, rng, fwd, pre, trained, opVars>>

TrainHidden ==
    /\ tr.pc = "hid"
    /\ tr.i >= 0
    /\ tr' = TrainBackpropagate(weights, tr)
    /\ UNCHANGED <<netVars, rng, fwd, ghostVars, opVars>>

TrainHiddenWeights ==
    /\ tr.pc = "hid_w"
    /\ WriteWeights(tr.i, [tr EXCEPT !.pc = "hid_b"])
    /\ UNCHANGED <<biases, layers, learning_rate, rng, fwd, pre, trained, opVars>>

TrainHiddenBiases ==
    /\ tr.pc = "hid_b"
    /\ WriteBiases(tr.i, [tr EXCEPT !.pc = "hid", !.i = tr.i - 1])
    /\ UNCHANGED <<weights, layers, learning_rate, rng, fwd, pre, trained, opVars>>

TrainReturn ==
    /\ tr.pc = "hid"
    /\ tr.i < 0
    /\ tr' = [tr EXCEPT !.pc = "done"]
    /\ UNCHANGED <<netVars, rng, fwd, ghostVars, opVars>>

\* setLearningRate(lr)
SetLearningRate(lr) ==
    /\ Quiet
    /\ lr # learning_rate
    /\ learning_rate' = lr
    /\ fwd' = [c \in Callers |-> IdleFrame]
    /\ tr' = IdleTrain
    /\ UNCHANGED <<weights, biases, layers, rng, ghostVars, opVars>>

----------------------------------------------------------------------------
(* Actions: the matrix harness, one operation on the operands drawn *)

Outcome(op, r) ==
    [IdleOp EXCEPT !.op = op, !.err = r.err, !.val = r.val,
                   !.lhs = opA, !.rhs = opB]

DoAdd ==
    /\ opOut.op = "none"
    /\ opOut' = Outcome("add", MatAdd(opA, opB))
    /\ UNCHANGED <<netVars, rng, fwd, tr, ghostVars, opA, opB>>

DoSubtract ==
    /\ opOut.op = "none"
    /\ opOut' = Outcome("subtract", MatSub(opA, opB))
    /\ UNCHANGED <<netVars, rng, fwd, tr, ghostVars, opA, opB>>

DoMultiply ==
    /\ opOut.op = "none"
    /\ opOut' = Outcome("multiply", MatMul(opA, opB))
    /\ UNCHANGED <<netVars, rng, fwd, tr, ghostVars, opA, opB>>

\* opA.randomize(min, max)
DoRandomize(min, max) ==
    /\ opOut.op = "none"
    /\ LET r == Randomize(opA, min, max, rng)
       IN  /\ opA' = r.val
           /\ rng' = r.rng
           /\ opOut' = [IdleOp EXCEPT !.op = "randomize", !.val = r.val,
                                      !.min = min, !.max = max,
                                      !.lhs = opA, !.rhs = opB]
    /\ UNCHANGED <<netVars, fwd, tr, ghostVars, opB>>

----------------------------------------------------------------------------
(* Specifications *)

\* one caller at a time: forward, train and setLearningRate calls in any order
Next ==
    \/ \E input \in ArgChoices : CallForward(1, input)
    \/ StepForward(1)
    \/ \E input \in ArgChoices, target \in ArgChoices : CallTrain(input, target)
    \/ TrainForward
    \/ TrainError
    \/ TrainOutputWeights
    \/ TrainOutputBiases
    \/ TrainHidden
    \/ TrainHiddenWeights
    \/ TrainHiddenBiases
    \/ TrainReturn
    \/ \E lr \in LRChoices : SetLearningRate(lr)

Spec == Init /\ [][Next]_vars

\* forward calls of several callers interleaved, no train call in flight
NextForward ==
    \/ \E c \in Callers, input \in ConcurrentArgChoices :
          CallForwardConcurrently(c, input)
    \/ \E c \in Callers : StepForward(c)

SpecForward == InitForward /\ [][NextForward]_vars

\* one matrix operation on operands drawn from MatrixChoices
NextMatrix ==
    \/ DoAdd
    \/ DoSubtract
    \/ DoMultiply
    \/ \E range \in RangeChoices : DoRandomize(range[1], range[2])

SpecMatrix == InitMatrix /\ [][NextMatrix]_vars

----------------------------------------------------------------------------
(* Properties *)

Cells(m) == {At(m, i, j) : i \in 1..m.rows, j \in 1..m.cols}

\* the shape a forward input and a train target must have
WellShapedInput(m) == IsShape(m, layers[1], 1)
WellShapedTarget(m) == IsShape(m, layers[Len(layers)], 1)

\* the writes of one train call on n weight layers: output layer first, each
\* layer's weights and then its biases, down to layer 0
RECURSIVE WritesFrom(_)
WritesFrom(layer) ==
    IF layer < 0 THEN <<>>
    ELSE <<(<<"weights", layer>>), (<<"biases", layer>>)>> \o WritesFrom(layer - 1)

IsPrefix(p, q) == Len(p) <= Len(q) /\ p = SubSeq(q, 1, Len(p))

\* C1: Multiply with A.cols # B.rows, and Add or Subtract of matrices of
\* different shape, throw invalid_argument (DimensionMismatch), return no
\* result, and leave both operands as they were drawn.
C1_MismatchRaises ==
    LET mismatch == IF opOut.op = "multiply" THEN opOut.lhs.cols # opOut.rhs.rows
                    ELSE ~SameShape(opOut.lhs, opOut.rhs)
    IN  (opOut.op \in {"add", "subtract", "multiply"} /\ mismatch)
            => /\ opOut.err = InvalidArgument
               /\ opOut.val = NoMatrix
               /\ opA = opOut.lhs
               /\ opB = opOut.rhs

\* C1 witness: a multiplication of operands with equal row counts but
\* A.cols # B.rows has thrown.
C1_Witness ==
    /\ opOut.op = "multiply"
    /\ opOut.err = InvalidArgument
    /\ opA.rows = opB.rows
    /\ opA.cols # opB.rows
    /\ opA.rows > 0

\* C2: a train call that throws leaves weights, biases, layers and learning
\* rate as they were when it began; a call with an ill-shaped input or target
\* never writes and ends by throwing invalid_argument.
C2_TrainAllOrNothing ==
    LET ill == ~(WellShapedInput(tr.input) /\ WellShapedTarget(tr.target))
    IN  /\ (tr.pc = "done" /\ tr.err # NoError) => Network = pre
        /\ (tr.pc # "idle" /\ ill) => (writes = <<>> /\ Network = pre)
        /\ (tr.pc = "done" /\ ill) => tr.err = InvalidArgument
        /\ (tr.pc = "done" /\ tr.err # NoError) => ill

\* C2 witness: a train call on a network with a hidden layer and a nonzero
\* learning rate ran its whole forward pass and then threw on the target.
C2_Witness ==
    /\ tr.pc = "done"
    /\ tr.err = InvalidArgument
    /\ WellShapedInput(tr.input)
    /\ ~WellShapedTarget(tr.target)
    /\ Len(tr.activations) = Len(weights) + 1
    /\ Len(weights) >= 2
    /\ learning_rate # 0

\* C3: the error propagated back to hidden layer i is the transpose of
\* weight[i+1] as it was when the train call began, times the error of layer
\* i+1.
C3_BackpropagatesOriginalWeights ==
    tr.pc = "hid_w"
        => tr.eRaw = MatMul(Transpose(pre.weights[tr.i + 2]), tr.eIn).val

\* C4: a forward call returns a (layers.back() x 1) matrix when its input is
\* (layers[0] x 1), and throws invalid_argument, returning nothing, for every
\* other input; also after train calls.
C4_ForwardShape ==
    \A c \in Callers :
        fwd[c].pc = "done"
            => IF WellShapedInput(fwd[c].input)
               THEN /\ fwd[c].err = NoError
                    /\ IsShape(fwd[c].ret, layers[Len(layers)], 1)
               ELSE /\ fwd[c].err = InvalidArgument
                    /\ fwd[c].ret = NoMatrix

\* C4 witness: after a train call that wrote, a forward call whose input has
\* the right row count and two columns has thrown.
C4_Witness ==
    /\ fwd[1].pc = "done"
    /\ fwd[1].err = InvalidArgument
    /\ fwd[1].input.rows = layers[1]
    /\ fwd[1].input.cols = 2
    /\ writes # <<>>

\* C5: there are layer-count - 1 weight matrices and as many bias matrices,
\* weight[i] is (layer[i+1] x layer[i]), bias[i] is (layer[i+1] x 1), and the
\* layer sizes are those the network was constructed with.
C5_ShapeInvariant ==
    /\ Len(layers) >= 2
    /\ Len(weights) = Len(layers) - 1
    /\ Len(biases) = Len(layers) - 1
    /\ \A i \in 1..Len(weights) :
        /\ IsShape(weights[i], layers[i + 1], layers[i])
        /\ IsShape(biases[i], layers[i + 1], 1)
        /\ Len(weights[i].data) = layers[i + 1]
        /\ Len(biases[i].data) = layers[i + 1]
        /\ \A r \in 1..layers[i + 1] :
            /\ Len(weights[i].data[r]) = layers[i]
            /\ Len(biases[i].data[r]) = 1
    /\ layers = pre.layers
    /\ layers \in LayerChoices

\* C5 witness: a successful train call has changed the weights of a network
\* whose weight matrices are not square.
C5_Witness ==
    /\ tr.pc = "done"
    /\ tr.err = NoError
    /\ layers = <<2, 1, 2>>
    /\ weights[1] # pre.weights[1]
    /\ weights[2] # pre.weights[2]

\* C6: no step of a forward call, returning and throwing included, changes
\* weights, biases, layers, the learning rate or the caller's input matrix.
C6_ForwardPure ==
    [][fwd[1].pc = "loop"
        => /\ weights' = weights
           /\ biases' = biases
           /\ layers' = layers
           /\ learning_rate' = learning_rate
           /\ fwd'[1].input = fwd[1].input]_vars

\* C6 witness: a forward call has returned a sigmoid-transformed activation
\* that differs from the input the caller still holds.
C6_Witness ==
    /\ fwd[1].pc = "done"
    /\ fwd[1].err = NoError
    /\ Len(weights) >= 2
    /\ fwd[1].ret # fwd[1].input
    /\ fwd[1].input \in ArgChoices

\* C7: during the forward pass of a train call nothing is written; once
\* something is written all activations a[0..L+1] are cached; the writes are
\* weights then biases of the output layer, then of each layer below it in
\* turn, each exactly once, and a successful call has made them all.
C7_TrainOrder ==
    /\ tr.pc = "fwd" => (writes = <<>> /\ Network = pre)
    /\ (tr.pc # "idle" /\ writes # <<>>)
        => (Len(tr.activations) = Len(weights) + 1
            /\ Len(tr.z_values) = Len(weights))
    /\ IsPrefix(writes, WritesFrom(Len(weights) - 1))
    /\ (tr.pc = "done" /\ tr.err = NoError)
        => writes = WritesFrom(Len(weights) - 1)

\* C7 witness: a successful train call on a network with two hidden layers
\* has returned.
C7_Witness ==
    /\ tr.pc = "done"
    /\ tr.err = NoError
    /\ Len(weights) = 3
    /\ Len(writes) = 6

\* C7 second case: no hidden layer.
C7_WitnessNoHidden ==
    /\ tr.pc = "done"
    /\ tr.err = NoError
    /\ Len(weights) = 1
    /\ Len(writes) = 2

C9_ConcurrentForward ==
    /\ \A c \in Callers :
        fwd[c].pc = "done"
            => LET alone == Forward(pre.weights, pre.biases, fwd[c].input)
               IN  fwd[c].ret = alone.ret /\ fwd[c].err = alone.err
    /\ Network = pre

\* C9 witness: one forward call has returned while another is in the middle
\* of its loop on a different input.
C9_Witness ==
    /\ fwd[1].pc = "done"
    /\ fwd[1].err = NoError
    /\ fwd[2].pc = "loop"
    /\ fwd[2].i = 1
    /\ fwd[2].input # fwd[1].input
    /\ Len(weights) >= 2

\* C10: the last activation cached by train's forward pass is forward(input)
\* on the weights and biases the call began with, and the output error is
\* forward(input) - target.
C10_TrainForwardIsForward ==
    LET f == Forward(pre.weights, pre.biases, tr.input)
    IN  /\ (tr.pc = "fwd" /\ tr.i = Len(weights))
            => (f.err = NoError /\ tr.activations[Len(tr.activations)] = f.ret)
        /\ tr.pc = "out_w"
            => (f.err = NoError /\ tr.error = MatSub(f.ret, tr.target).val)
        /\ (tr.pc = "done" /\ tr.err # NoError /\ ~WellShapedInput(tr.input))
            => f.err = tr.err

\* C10 witness: train on a network with a hidden layer has formed a nonzero
\* output error.
C10_Witness ==
    /\ tr.pc = "out_w"
    /\ Len(weights) >= 2
    /\ \E v \in Cells(tr.error) : v # 0

====
